---- MODULE Spec2Model ----
(***************************************************************************)
(* providah: PackageFactory, a process-wide registry of class definitions  *)
(* (src/providah/factories/package_factory.py).                            *)
(*                                                                         *)
(* Python strings are sequences of one-character strings, so that          *)
(* str.lower() and str.startswith() are computed and not assumed.          *)
(***************************************************************************)
EXTENDS Integers, Sequences, FiniteSets, TLC

VARIABLES registry, last

vars == <<registry, last>>

(* Longest registry the model explores. *)
MaxReg == 2

----------------------------------------------------------------------------
(* Python values *)

(* The None object: a value that is no string (no character is "NoneType"). *)
None == <<"NoneType">>

Upper == <<"A","B","C","D","E","F","G","H","I","J","K","L","M",
           "N","O","P","Q","R","S","T","U","V","W","X","Y","Z">>

Lower == <<"a","b","c","d","e","f","g","h","i","j","k","l","m",
           "n","o","p","q","r","s","t","u","v","w","x","y","z">>

(* The lower-case form of each upper-case letter. *)
LowerOf == [c \in {Upper[i] : i \in 1..Len(Upper)} |->
               Lower[CHOOSE i \in 1..Len(Upper) : Upper[i] = c]]

LowerChar(c) == IF c \in DOMAIN LowerOf THEN LowerOf[c] ELSE c

(* str.lower() *)
lower(s) == [i \in 1..Len(s) |-> LowerChar(s[i])]

(* str that gives "" for None. *)
str_blank(x) == IF x = None THEN <<>> ELSE x

(* str(x): the text "None" for the None object, a string is itself. *)
str(x) == IF x = None THEN <<"N","o","n","e">> ELSE x

(* Truth value of an optional string: None and "" are false. *)
Truthy(x) == x # None /\ x # <<>>

(* str.startswith('_') *)
StartsWithUnderscore(s) == Len(s) > 0 /\ s[1] = "_"

----------------------------------------------------------------------------
(* Entry and register *)

Entry(key, class_def, library, label) ==
    [key |-> key, class_def |-> class_def, library |-> library, label |-> label]

(* new_entry of register: key.lower(), str(library).lower(), str(label).lower() *)
NewEntry(key, class_def, library, label) ==
    Entry(lower(key), class_def, lower(str(library)), lower(str(label)))

(* `new_entry in cls.__registry` *)
InRegistry(e, reg) == \E i \in 1..Len(reg) : reg[i] = e

(* register without the membership test. *)
register_unchecked(reg, key, class_def, library, label) ==
    Append(reg, NewEntry(key, class_def, library, label))

(* register that inserts at the head of the list. *)
register_front(reg, key, class_def, library, label) ==
    LET new_entry == NewEntry(key, class_def, library, label)
    IN  IF ~InRegistry(new_entry, reg) THEN <<new_entry>> \o reg ELSE reg

register(reg, key, class_def, library, label) ==
    LET new_entry == NewEntry(key, class_def, library, label)
    IN  IF ~InRegistry(new_entry, reg) THEN Append(reg, new_entry) ELSE reg

----------------------------------------------------------------------------
(* create *)

(* The key filter without lower(). *)
KeyFilter_exact(entries, key) ==
    SelectSeq(entries, LAMBDA entry : entry.key = key)

KeyFilter(entries, key) ==
    LET k == lower(key) IN SelectSeq(entries, LAMBDA entry : entry.key = k)

(* The library filter without lower(). *)
LibraryFilter_exact(entries, library) ==
    SelectSeq(entries, LAMBDA entry : entry.library = library)

LibraryFilter(entries, library) ==
    LET l == lower(library) IN SelectSeq(entries, LAMBDA entry : entry.library = l)

LabelFilter(entries, label) ==
    LET l == lower(label) IN SelectSeq(entries, LAMBDA entry : entry.label = l)

(* A raised ProvidahError: which raise statement, the values its message     *)
(* interpolates, and the entries left when it was raised.  No class_def was *)
(* called: instance is empty.                                               *)
Raise(kind, entries, reported) ==
    [kind |-> kind, entries |-> entries, reported |-> reported, instance |-> <<>>]

(* The class_def called without the keyword arguments. *)
Construct_no_kwargs(entries, kwargs) ==
    [kind |-> "instance", entries |-> entries, reported |-> [key |-> None],
     instance |-> <<[class_def |-> entries[1].class_def, kwargs |-> {}]>>]

\* entries[0].class_def called with the keyword arguments
Construct(entries, kwargs) ==
    [kind |-> "instance", entries |-> entries, reported |-> [key |-> None],
     instance |-> <<[class_def |-> entries[1].class_def, kwargs |-> kwargs]>>]

(* The test with the limit off by one. *)
IsAmbiguous_three(entries) == Len(entries) > 2

(* `len(entries) > 1`: the filters given did not single out one entry. *)
IsAmbiguous(entries) == Len(entries) > 1

create(reg, key, library, label, kwargs) ==
    LET byKey   == KeyFilter(reg, key)
        byLib   == IF Truthy(library) THEN LibraryFilter(byKey, library) ELSE byKey
        byLabel == IF Truthy(label) THEN LabelFilter(byLib, label) ELSE byLib
    IN  IF Len(byKey) = 0
        THEN Raise("UnknownKey", byKey, [key |-> key])
        ELSE IF Truthy(library) /\ Len(byLib) = 0
        THEN Raise("UnknownLibrary", byLib, [library |-> library, key |-> key])
        ELSE IF Truthy(label) /\ Len(byLabel) = 0
        THEN Raise("UnknownLabel", byLabel, [label |-> label, key |-> key])
        ELSE IF IsAmbiguous(byLabel)
        THEN Raise("AmbiguousEntry", byLabel,
                   [key |-> key, label |-> label, library |-> library,
                    count |-> Len(byLabel)])
        ELSE Construct(byLabel, kwargs)

----------------------------------------------------------------------------
(* What pkgutil.iter_modules and the import system show of the file system *)

(* One public or private name of dir(module): getattr yields class_def, or  *)
(* raises when readable is FALSE.                                           *)
Member(dir_name, class_def, readable) ==
    [dir_name |-> dir_name, class_def |-> class_def, readable |-> readable]

(* A non-package module: importable is FALSE when `import` raises; members  *)
(* is dir(module), which Python returns sorted.                             *)
Module(name, importable, members) ==
    [is_a_package |-> FALSE, name |-> name, importable |-> importable,
     members |-> members]

(* A package: a directory with the units iter_modules yields for it. *)
Package(name, units) == [is_a_package |-> TRUE, name |-> name, units |-> units]

(* A directory: its base name and the units iter_modules yields, in order. *)
Dir(basename, units) == [basename |-> basename, units |-> units]

(* f"{module}.{name}" *)
Dotted(module, name) == module \o <<".">> \o name

PACKAGEFACTORY == <<"p","a","c","k","a","g","e","f","a","c","t","o","r","y">>

----------------------------------------------------------------------------
(* __add_entry_to_registry and fill_registry *)

(* The ProvidahError of __add_entry_to_registry's except clause. *)
ScanFailure(reg, imported) == [registry |-> reg, raised |-> TRUE, imported |-> imported]

ScanDone(reg, imported) == [registry |-> reg, raised |-> FALSE, imported |-> imported]

(* The guard of the loop body: `if not dir_name.lower() == 'packagefactory'` *)
NotThisFactory(dir_name, class_def) == lower(dir_name) # PACKAGEFACTORY

(* The loop `for dir_name in dir(obj)` from member i on. *)
RECURSIVE RegisterMembers(_, _, _, _, _, _)
RegisterMembers(reg, members, i, library, label, imported) ==
    IF i > Len(members) THEN ScanDone(reg, imported)
    ELSE LET dir_name == members[i].dir_name IN
         IF StartsWithUnderscore(dir_name)
         THEN RegisterMembers(reg, members, i + 1, library, label, imported)
         ELSE IF ~members[i].readable
         THEN ScanFailure(reg, imported)
         ELSE IF NotThisFactory(dir_name, members[i].class_def)
         THEN RegisterMembers(
                  register(reg, lower(dir_name), members[i].class_def, library, label),
                  members, i + 1, library, label, imported)
         ELSE RegisterMembers(reg, members, i + 1, library, label, imported)

(* imported: the names given to `import` so far, this one included. *)
add_entry_to_registry(reg, label, library, name_of_package, unit, imported) ==
    IF ~unit.importable
    THEN ScanFailure(reg, Append(imported, name_of_package))
    ELSE RegisterMembers(reg, unit.members, 1, library, label,
                         Append(imported, name_of_package))

RECURSIVE fill_registry(_, _, _, _, _, _, _)
RECURSIVE ScanUnits(_, _, _, _, _, _, _, _)

(* A loop that swallows the error and goes on. *)
Propagates_never(step) == FALSE

(* Neither loop catches: a ProvidahError raised below leaves the loop and   *)
(* the call.                                                                *)
Propagates(step) == step.raised

(* The loop over pkgutil.iter_modules([pkg_dir]) from unit i on; pkg_dir    *)
(* is the directory whose units are `units`.                                *)
ScanUnits(reg, units, i, module, library, label, imported, caller_dir) ==
    IF i > Len(units) THEN ScanDone(reg, imported)
    ELSE LET unit     == units[i]
             pkg_name == Dotted(module, unit.name)
             step == IF ~unit.is_a_package
                     THEN add_entry_to_registry(reg, label, library, pkg_name,
                                                unit, imported)
                     ELSE fill_registry(reg, <<Dir(unit.name, unit.units)>>,
                                        pkg_name, library, label, imported,
                                        caller_dir)
         IN  IF Propagates(step) THEN step
             ELSE ScanUnits(step.registry, units, i + 1, module, library, label,
                            step.imported, caller_dir)

(* fill_registry that takes the module name as library at every level. *)
fill_registry_own_library(reg, path, module, library, label, imported, caller_dir) ==
    LET pkg_dir == IF path = <<>> THEN caller_dir ELSE path[1]
        mod     == IF ~Truthy(module) THEN pkg_dir.basename ELSE module
    IN  ScanUnits(reg, pkg_dir.units, 1, mod, mod, label, imported, caller_dir)

(* path is <<>> when the caller gives none, and <<dir>> otherwise;          *)
(* caller_dir is the directory of the calling module, which `if not path`   *)
(* takes instead.                                                           *)
fill_registry(reg, path, module, library, label, imported, caller_dir) ==
    LET pkg_dir == IF path = <<>> THEN caller_dir ELSE path[1]
        mod     == IF ~Truthy(module) THEN pkg_dir.basename ELSE module
        lib     == IF ~Truthy(library) THEN mod ELSE library
    IN  ScanUnits(reg, pkg_dir.units, 1, mod, lib, label, imported, caller_dir)

----------------------------------------------------------------------------
(* Arguments the callers pass *)

KeyArgs == {<<"A">>, <<"b">>}

ClassDefs == {"CtorA", "CtorB"}

LibraryArgs == {None, <<>>, <<"X">>, <<"N","o","n","e">>}

LabelArgs == {None, <<>>, <<"v">>, <<"N","O","N","E">>}

\* the keyword arguments: a set of <<name, value>> pairs
KwArgs == {{}, {<<"n", 1>>}}

(* register is called with a library or without, and without a label or   *)
(* with "NONE"; the entries with a label come from fill_registry.          *)
RegLibraryArgs == LibraryArgs \ {<<>>}

RegLabelArgs == {None, <<"N","O","N","E">>}

----------------------------------------------------------------------------
(* The directories fill_registry is pointed at *)

mA == Member(<<"A">>, "CtorA", TRUE)

mA2 == Member(<<"A">>, "CtorB", TRUE)

mB == Member(<<"B">>, "CtorB", TRUE)

mBroken == Member(<<"B">>, "CtorB", FALSE)

mFactory == Member(<<"P","a","c","k","a","g","e","F","a","c","t","o","r","y">>,
                   "PackageFactory", TRUE)

mAlias == Member(<<"F">>, "PackageFactory", TRUE)

mPrivate == Member(<<"_","p">>, "CtorB", TRUE)

(* Units are listed as iter_modules yields them: sorted by name. *)
Dirs ==
    [ flat    |-> Dir(<<"M">>, << Module(<<"u">>, TRUE, <<mA, mFactory, mPrivate>>),
                                  Module(<<"w">>, TRUE, <<mB>>) >>),
      nested  |-> Dir(<<"M">>, << Module(<<"c">>, TRUE, <<mA, mPrivate>>),
                                  Package(<<"s">>,
                                      << Module(<<"w">>, TRUE, <<mB, mFactory>>) >>) >>),
      deep    |-> Dir(<<"M">>, << Module(<<"c">>, TRUE, <<mA>>),
                                  Package(<<"s">>,
                                      << Package(<<"t">>,
                                             << Module(<<"k">>, FALSE, <<mB>>),
                                                Module(<<"w">>, TRUE, <<mB>>) >>),
                                         Module(<<"w">>, TRUE, <<mB>>) >>),
                                  Module(<<"w">>, TRUE, <<mB>>) >>),
      first   |-> Dir(<<"M">>, << Module(<<"k">>, FALSE, <<mA>>),
                                  Module(<<"u">>, TRUE, <<mA>>) >>),
      partial |-> Dir(<<"M">>, << Module(<<"u">>, TRUE, <<mA, mBroken>>),
                                  Module(<<"w">>, TRUE, <<mB>>) >>),
      alias   |-> Dir(<<"M">>, << Module(<<"u">>, TRUE, <<mAlias, mFactory>>) >>),
      clash   |-> Dir(<<"M">>, << Module(<<"c">>, TRUE, <<mA>>),
                                  Package(<<"s">>,
                                      << Module(<<"c">>, TRUE, <<mA2>>) >>) >>),
      empty   |-> Dir(<<"M">>, << Package(<<"s">>, <<>>) >>) ]

DirNames == DOMAIN Dirs

(* The directory of the module that calls fill_registry without a path. *)
CallerDir == "flat"

(* path: the name of a directory, or "" for no path. *)
PathArgs == DirNames \cup {""}

PathOf(name) == IF name = "" THEN <<>> ELSE <<Dirs[name]>>

ModuleArgs == {None, <<"X">>}

ScanLibraryArgs == {None, <<"X">>}

ScanLabelArgs == {None, <<"V">>}

----------------------------------------------------------------------------
(* Operations.  A call is made when no result is pending (last.op = "idle"), *)
(* last then holds the call, the registry before it and its result, and     *)
(* Return hands control back to the caller.                                 *)

Idle == [op |-> "idle"]

Init ==
    /\ registry = <<>>
    /\ last = Idle

Register ==
    \E key \in KeyArgs, class_def \in ClassDefs,
       library \in RegLibraryArgs, label \in RegLabelArgs :
        /\ last = Idle
        /\ Len(register(registry, key, class_def, library, label)) <= MaxReg
        /\ registry' = register(registry, key, class_def, library, label)
        /\ last' = [op |-> "register", key |-> key, class_def |-> class_def,
                    library |-> library, label |-> label, before |-> registry]

Create ==
    \E key \in KeyArgs, library \in LibraryArgs, label \in LabelArgs,
       kwargs \in KwArgs :
        /\ last = Idle
        /\ last' = [op |-> "create", key |-> key, library |-> library,
                    label |-> label, kwargs |-> kwargs,
                    outcome |-> create(registry, key, library, label, kwargs)]
        /\ UNCHANGED registry

FillRegistry ==
    \E path \in PathArgs, module \in ModuleArgs,
       library \in ScanLibraryArgs, label \in ScanLabelArgs :
        LET scan == fill_registry(registry, PathOf(path), module, library, label,
                                  <<>>, Dirs[CallerDir])
        IN  /\ last = Idle
            /\ Len(scan.registry) <= MaxReg
            /\ registry' = scan.registry
            /\ last' = [op |-> "fill_registry", path |-> path, module |-> module,
                        library |-> library, label |-> label,
                        before |-> registry,
                        raised |-> scan.raised, imported |-> scan.imported]

Return ==
    /\ last # Idle
    /\ last' = Idle
    /\ UNCHANGED registry

Next == Register \/ Create \/ FillRegistry \/ Return

Spec == Init /\ [][Next]_vars

----------------------------------------------------------------------------
(* Vocabulary of the properties *)

NONE_TEXT == <<"n","o","n","e">>

Indices(reg) == 1..Len(reg)

IsPrefix(s, t) == Len(s) <= Len(t) /\ \A i \in 1..Len(s) : s[i] = t[i]

(* The entries a call appended. *)
Added(before, after) == {after[i] : i \in (Len(before) + 1)..Len(after)}

(* Letters in the other case, and strings that differ in case only. *)
UpperOf == [c \in {Lower[i] : i \in 1..Len(Lower)} |->
               Upper[CHOOSE i \in 1..Len(Lower) : Lower[i] = c]]

UpperChar(c) == IF c \in DOMAIN UpperOf THEN UpperOf[c] ELSE c

SmallChar(c) ==
    IF \E d \in DOMAIN UpperOf : UpperOf[d] = c
    THEN CHOOSE d \in DOMAIN UpperOf : UpperOf[d] = c
    ELSE c

SameLetter(c, d) == c = d \/ UpperChar(c) = d \/ c = UpperChar(d)

SameText(s, t) ==
    Len(s) = Len(t) /\ \A i \in 1..Len(s) : SameLetter(s[i], t[i])

(* Every way of writing x in upper and lower case; None is no string. *)
CaseVariants(x) ==
    IF x = None THEN {None}
    ELSE {[i \in 1..Len(x) |-> IF up[i] THEN UpperChar(x[i]) ELSE SmallChar(x[i])] :
              up \in [1..Len(x) -> BOOLEAN]}

(* The same, tabulated for the arguments the calls are made with. *)
VariantsOf == [x \in KeyArgs \cup LibraryArgs \cup LabelArgs |-> CaseVariants(x)]

(* Positions of the entries with the key k, whatever the case of k. *)
WithKey(reg, k) == {i \in Indices(reg) : SameText(reg[i].key, k)}

Has(field, x) == SameText(field, x)

(* ... that also pass the library filter x and the label filter y, when the *)
(* predicate supplied says that x (y) is a filter.                          *)

Surviving(reg, k, x, y, supplied(_)) ==
    {i \in WithKey(reg, k) :
        /\ supplied(x) => Has(reg[i].library, x)
        /\ supplied(y) => Has(reg[i].label, y)}

Given(x) == x # None

GivenNonEmpty(x) == x # None /\ x # <<>>

UnknownKinds == {"UnknownKey", "UnknownLibrary", "UnknownLabel"}

(* What the two results of create show to the caller, the message aside. *)
Same(o1, o2) ==
    o1.kind = o2.kind /\ o1.entries = o2.entries /\ o1.instance = o2.instance

----------------------------------------------------------------------------
(* C1: the registry never holds two equal entries, every entry is stored   *)
(* normalised, and a register call whose entry is already present leaves   *)
(* the registry as it was, with exactly one such entry.                    *)
C1_NoDuplicateEntries ==
    /\ \A i, j \in Indices(registry) : i # j => registry[i] # registry[j]
    /\ \A i \in Indices(registry) :
          /\ registry[i].key = lower(registry[i].key)
          /\ registry[i].library = lower(registry[i].library)
          /\ registry[i].label = lower(registry[i].label)
    /\ last.op = "register" =>
          /\ Cardinality({i \in Indices(registry) :
                 /\ registry[i].class_def = last.class_def
                 /\ Has(registry[i].key, last.key)
                 /\ Has(registry[i].library, str(last.library))
                 /\ Has(registry[i].label, str(last.label))}) = 1
          /\ register(registry, last.key, last.class_def, last.library, last.label)
                = registry

(* register was called with an entry the registry already held. *)
C1_Witness ==
    /\ last.op = "register"
    /\ last.before = registry
    /\ Len(registry) = 2

----------------------------------------------------------------------------
(* C2 as stated: when every entry with the key has the same library and    *)
(* label, create with that key (library and label each absent or equal to  *)
(* the stored one) returns an instance of such an entry's class_def, made  *)
(* with the keyword arguments given.                                       *)
C2_OneCombination ==
    (/\ last.op = "create"
     /\ WithKey(registry, last.key) # {}
     /\ \A i, j \in WithKey(registry, last.key) :
           /\ registry[i].library = registry[j].library
           /\ registry[i].label = registry[j].label
     /\ \A i \in WithKey(registry, last.key) :
           /\ Given(last.library) => Has(registry[i].library, last.library)
           /\ Given(last.label) => Has(registry[i].label, last.label))
    => (/\ last.outcome.kind = "instance"
        /\ \E i \in WithKey(registry, last.key) :
              last.outcome.instance =
                  <<[class_def |-> registry[i].class_def, kwargs |-> last.kwargs]>>)

(* C2 amended: when exactly one entry has the key, create with that key    *)
(* (library and label each absent or equal to the stored one) returns the  *)
(* instance of that entry's class_def made with the keyword arguments      *)
(* given; when several entries share the key, library and label, it fails  *)
(* with AmbiguousEntry.                                                    *)
C2_SingleEntry ==
    (/\ last.op = "create"
     /\ WithKey(registry, last.key) # {}
     /\ \A i, j \in WithKey(registry, last.key) :
           /\ registry[i].library = registry[j].library
           /\ registry[i].label = registry[j].label
     /\ \A i \in WithKey(registry, last.key) :
           /\ Given(last.library) => Has(registry[i].library, last.library)
           /\ Given(last.label) => Has(registry[i].label, last.label))
    => IF Cardinality(WithKey(registry, last.key)) = 1
       THEN /\ last.outcome.kind = "instance"
            /\ \A i \in WithKey(registry, last.key) :
                  last.outcome.instance =
                      <<[class_def |-> registry[i].class_def, kwargs |-> last.kwargs]>>
       ELSE /\ last.outcome.kind = "AmbiguousEntry"
            /\ last.outcome.instance = <<>>

(* The only entry with the key was asked for with its library and label,   *)
(* and with keyword arguments.                                             *)
C2_Witness ==
    /\ last.op = "create"
    /\ Cardinality(WithKey(registry, last.key)) = 1
    /\ Len(registry) = 2
    /\ last.library = <<"X">>
    /\ last.label = <<"v">>
    /\ last.kwargs # {}
    /\ last.outcome.kind = "instance"

----------------------------------------------------------------------------
(* The error the progressive filters call for, "none" when each filter     *)
(* leaves an entry.                                                        *)
FirstEmpty(reg, k, x, y, supplied(_)) ==
    IF WithKey(reg, k) = {} THEN "UnknownKey"
    ELSE IF supplied(x) /\ Surviving(reg, k, x, None, supplied) = {}
    THEN "UnknownLibrary"
    ELSE IF supplied(y) /\ Surviving(reg, k, x, y, supplied) = {}
    THEN "UnknownLabel"
    ELSE "none"

(* C3 as stated: create fails with UnknownKey, UnknownLibrary or           *)
(* UnknownLabel exactly when the key, the library supplied or the label    *)
(* supplied is the first filter to leave no entry, where supplied means    *)
(* passed at all; no class_def is called then.                             *)
C3_FirstEmptyFilter ==
    last.op = "create" =>
        LET want == FirstEmpty(registry, last.key, last.library, last.label, Given)
        IN  /\ want # "none" =>
                   /\ last.outcome.kind = want
                   /\ last.outcome.instance = <<>>
            /\ last.outcome.kind \in UnknownKinds => last.outcome.kind = want

(* C3 amended: the same, where a library or label counts as supplied when  *)
(* it is a non-empty string.                                               *)
C3_FirstEmptyNonEmptyFilter ==
    last.op = "create" =>
        LET want == FirstEmpty(registry, last.key, last.library, last.label,
                               GivenNonEmpty)
        IN  /\ want # "none" =>
                   /\ last.outcome.kind = want
                   /\ last.outcome.instance = <<>>
            /\ last.outcome.kind \in UnknownKinds => last.outcome.kind = want

(* Two entries have the key and the library asked for, none has the label. *)
C3_Witness ==
    /\ last.op = "create"
    /\ last.library = <<"X">>
    /\ Cardinality(Surviving(registry, last.key, last.library, None, Given)) = 2
    /\ last.outcome.kind = "UnknownLabel"
    /\ last.outcome.reported = [label |-> last.label, key |-> last.key]

----------------------------------------------------------------------------
(* C4: when more than one entry passes the key and the library and label   *)
(* filters supplied, create fails with AmbiguousEntry, reports their       *)
(* number and the filter values, and calls no class_def; when exactly one  *)
(* passes, create returns its instance.  Both hold whether the empty       *)
(* string counts as supplied or not.                                       *)
C4_Ambiguous ==
    last.op = "create" =>
        LET strict == Surviving(registry, last.key, last.library, last.label, Given)
            loose  == Surviving(registry, last.key, last.library, last.label,
                                GivenNonEmpty)
        IN  /\ Cardinality(strict) > 1 =>
                   /\ last.outcome.kind = "AmbiguousEntry"
                   /\ last.outcome.reported.count >= Cardinality(strict)
            /\ Cardinality(loose) > 1 =>
                   /\ last.outcome.kind = "AmbiguousEntry"
                   /\ last.outcome.instance = <<>>
                   /\ last.outcome.reported =
                          [key |-> last.key, label |-> last.label,
                           library |-> last.library, count |-> Cardinality(loose)]
            /\ Cardinality(loose) = 1 =>
                   \A i \in loose :
                       last.outcome.instance =
                           <<[class_def |-> registry[i].class_def,
                              kwargs |-> last.kwargs]>>

(* The key alone was given and two entries of different libraries have it. *)
C4_Witness ==
    /\ last.op = "create"
    /\ last.library = None
    /\ last.label = None
    /\ Len(registry) = 2
    /\ registry[1].key = registry[2].key
    /\ registry[1].library # registry[2].library
    /\ last.outcome.kind = "AmbiguousEntry"
    /\ last.outcome.reported.count = 2

----------------------------------------------------------------------------
(* C5: create gives the same entry or the same error when its key, library *)
(* or label is replaced by a string that differs in letter case only, and  *)
(* register stores the same entry for such strings.                        *)
C5_CaseInsensitive ==
    /\ last.op = "create" =>
          /\ \A k \in VariantsOf[last.key] :
                Same(create(registry, k, last.library, last.label, last.kwargs),
                     last.outcome)
          /\ \A x \in VariantsOf[last.library] :
                Same(create(registry, last.key, x, last.label, last.kwargs),
                     last.outcome)
          /\ \A y \in VariantsOf[last.label] :
                Same(create(registry, last.key, last.library, y, last.kwargs),
                     last.outcome)
    /\ last.op = "register" =>
          /\ \A k \in VariantsOf[last.key] :
                register(last.before, k, last.class_def, last.library, last.label)
                    = registry
          /\ \A x \in VariantsOf[last.library] :
                register(last.before, last.key, last.class_def, x, last.label)
                    = registry
          /\ \A y \in VariantsOf[last.label] :
                register(last.before, last.key, last.class_def, last.library, y)
                    = registry

(* An entry was found with a key and a library in upper case. *)
C5_Witness ==
    /\ last.op = "create"
    /\ last.key = <<"A">>
    /\ last.library = <<"X">>
    /\ last.label = <<>>
    /\ last.outcome.kind = "instance"
    /\ last.outcome.entries[1].key = <<"a">>
    /\ last.outcome.entries[1].library = <<"x">>

----------------------------------------------------------------------------
(* C6: every step keeps the registry as a prefix of the new registry;      *)
(* create leaves it unchanged whatever its outcome; register appends one   *)
(* entry or none.                                                          *)
C6_OnlyGrows ==
    [][/\ IsPrefix(registry, registry')
       /\ last'.op = "create" => registry' = registry
       /\ last'.op = "register" => Len(registry') <= Len(registry) + 1]_vars

(* A scan that failed half way added to a registry that held an entry. *)
C6_Witness ==
    /\ last.op = "fill_registry"
    /\ last.raised
    /\ Len(last.before) = 1
    /\ Len(registry) = 2

----------------------------------------------------------------------------
(* Vocabulary of the scan properties: what a scan is asked to cover *)

SmallText(s) == [i \in 1..Len(s) |-> SmallChar(s[i])]

ScannedDir(l) == IF l.path = "" THEN Dirs[CallerDir] ELSE Dirs[l.path]

RootModule(l) == IF GivenNonEmpty(l.module) THEN l.module ELSE ScannedDir(l).basename

RootLibrary(l) == IF GivenNonEmpty(l.library) THEN l.library ELSE RootModule(l)

(* The non-package modules under units, depth first, with dotted names. *)
RECURSIVE LeafUnits(_, _)
LeafUnits(units, module) ==
    IF units = <<>> THEN <<>>
    ELSE LET u == Head(units)
             n == module \o <<".">> \o u.name
         IN  (IF u.is_a_package THEN LeafUnits(u.units, n)
              ELSE <<[name |-> n, unit |-> u]>>)
             \o LeafUnits(Tail(units), module)

Leaves(l) == LeafUnits(ScannedDir(l).units, RootModule(l))

Public(u) == {j \in 1..Len(u.members) : u.members[j].dir_name[1] # "_"}

(* Loading u fails: its import raises, or reading a public member does. *)
Breaks(u) == ~u.importable \/ \E j \in Public(u) : ~u.members[j].readable

NamedFactory(m) == SmallText(m.dir_name) = PACKAGEFACTORY

(* The entry member m is to be stored as under the root call l. *)
Expected(m, l) ==
    [key |-> SmallText(m.dir_name), class_def |-> m.class_def,
     library |-> SmallText(RootLibrary(l)),
     label |-> IF l.label = None THEN NONE_TEXT ELSE SmallText(l.label)]

(* The entries of the public members of the first n modules of leaves. *)
PublicEntries(leaves, n, l) ==
    UNION {{Expected(leaves[i].unit.members[j], l) : j \in Public(leaves[i].unit)} :
               i \in 1..n}

InSeq(e, seq) == \E i \in 1..Len(seq) : seq[i] = e

(* create finds e by its key, library and label: it fails at most because  *)
(* other entries pass the same filters.                                    *)
Resolves(reg, e) ==
    LET o == create(reg, e.key, e.library, e.label, {})
    IN  /\ o.kind \in {"instance", "AmbiguousEntry"}
        /\ InSeq(e, o.entries)

----------------------------------------------------------------------------
----------------------------------------------------------------------------
(* C8: a scan appends no entry whose class_def is PackageFactory. *)
C8_FactoryNeverRegistered ==
    last.op = "fill_registry" =>
        \A e \in Added(last.before, registry) : e.class_def # "PackageFactory"

----------------------------------------------------------------------------
(* C9 as stated: after a scan that did not raise, every public member of   *)
(* every module at every depth is in the registry under its lower-case     *)
(* name with the library and label of the root call, and create with that  *)
(* name and the root library returns its instance.                         *)
C9_AllPublicMembers ==
    (last.op = "fill_registry" /\ ~last.raised) =>
        \A i \in 1..Len(Leaves(last)) : \A j \in Public(Leaves(last)[i].unit) :
            LET m == Leaves(last)[i].unit.members[j]
                o == create(registry, m.dir_name, RootLibrary(last), None, {})
            IN  /\ InSeq(Expected(m, last), registry)
                /\ o.instance = <<[class_def |-> m.class_def, kwargs |-> {}]>>

(* C9 amended: after a scan that did not raise, every public member whose  *)
(* lower-case name is not "packagefactory", of every module at every       *)
(* depth, is in the registry under its lower-case name with the library    *)
(* and label of the root call; create with that name and the root library  *)
(* never fails with UnknownKey or UnknownLibrary, and returns the member's *)
(* instance when no other entry has that key and library.  The scan        *)
(* appends no other entries.                                               *)
C9_PublicMembersRegistered ==
    (last.op = "fill_registry" /\ ~last.raised) =>
        /\ \A i \in 1..Len(Leaves(last)) : \A j \in Public(Leaves(last)[i].unit) :
              LET m == Leaves(last)[i].unit.members[j]
                  o == create(registry, m.dir_name, RootLibrary(last), None, {})
              IN  ~NamedFactory(m) =>
                      /\ InSeq(Expected(m, last), registry)
                      /\ o.kind \in {"instance", "AmbiguousEntry"}
                      /\ InSeq(Expected(m, last), o.entries)
                      /\ Len(o.entries) = 1 =>
                             o.instance = <<[class_def |-> m.class_def, kwargs |-> {}]>>
        /\ IsPrefix(last.before, registry)
        /\ Added(last.before, registry) \subseteq
               PublicEntries(Leaves(last), Len(Leaves(last)), last)

(* A scan without a library stored the member of a nested module under the *)
(* name of the root namespace.                                             *)
C9_Witness ==
    /\ last.op = "fill_registry"
    /\ last.path = "nested"
    /\ ~last.raised
    /\ last.library = None
    /\ last.module = None
    /\ Len(registry) = 2
    /\ registry[2].key = <<"b">>
    /\ registry[2].library = <<"m">>

----------------------------------------------------------------------------
(* C10: register stores an absent library or label as "none", the same     *)
(* entry as for the string "None" in any case; create with the label       *)
(* (library) "none" selects the entries registered without a label         *)
(* (library) that pass the other filters; and create with a library or     *)
(* label that is absent or empty filters nothing by it.                    *)
NoneTexts == {None} \cup CaseVariants(NONE_TEXT)

NoneWritings(x) == IF x = None \/ SameText(x, NONE_TEXT) THEN NoneTexts ELSE {x}

WithoutLabel(e) == register(<<>>, e.key, e.class_def, e.library, None) = <<e>>

WithoutLibrary(e) == register(<<>>, e.key, e.class_def, None, e.label) = <<e>>

Blank(x) == x = None \/ x = <<>>

C10_NoneIsAString ==
    /\ last.op = "register" =>
          /\ \E i \in Indices(registry) :
                /\ registry[i].class_def = last.class_def
                /\ SameText(registry[i].key, last.key)
                /\ last.library = None => registry[i].library = NONE_TEXT
                /\ last.label = None => registry[i].label = NONE_TEXT
          /\ \A x \in NoneWritings(last.library) :
                register(last.before, last.key, last.class_def, x, last.label)
                    = registry
          /\ \A y \in NoneWritings(last.label) :
                register(last.before, last.key, last.class_def, last.library, y)
                    = registry
          /\ (last.library = None /\ last.label = None) =>
                register(registry, last.key, last.class_def,
                         <<"N","o","n","e">>, <<"N","O","N","E">>) = registry
    /\ last.op = "create" =>
          /\ (last.label # None /\ SameText(last.label, NONE_TEXT)) =>
                LET cand == {i \in Surviving(registry, last.key, last.library, None,
                                             GivenNonEmpty) :
                                 WithoutLabel(registry[i])}
                IN  cand # {} =>
                        /\ last.outcome.kind # "UnknownLabel"
                        /\ {last.outcome.entries[n] :
                                n \in 1..Len(last.outcome.entries)}
                               = {registry[i] : i \in cand}
          /\ (last.library # None /\ SameText(last.library, NONE_TEXT)) =>
                LET cand == {i \in WithKey(registry, last.key) :
                                 WithoutLibrary(registry[i])}
                IN  cand # {} =>
                        /\ last.outcome.kind # "UnknownLibrary"
                        /\ Blank(last.label) =>
                               {last.outcome.entries[n] :
                                    n \in 1..Len(last.outcome.entries)}
                                   = {registry[i] : i \in cand}
          /\ Blank(last.library) =>
                /\ last.outcome.kind # "UnknownLibrary"
                /\ \A x \in {None, <<>>} :
                      Same(create(registry, last.key, x, last.label, last.kwargs),
                           last.outcome)
          /\ Blank(last.label) =>
                /\ last.outcome.kind # "UnknownLabel"
                /\ \A y \in {None, <<>>} :
                      Same(create(registry, last.key, last.library, y, last.kwargs),
                           last.outcome)
          /\ (Blank(last.library) /\ Blank(last.label)
                 /\ WithKey(registry, last.key) # {}) =>
                {last.outcome.entries[n] : n \in 1..Len(last.outcome.entries)}
                    = {registry[i] : i \in WithKey(registry, last.key)}

(* Of two entries with the key, create with the label "NONE" and an empty  *)
(* library picked the one registered without a label.                      *)
C10_Witness ==
    /\ last.op = "create"
    /\ last.label = <<"N","O","N","E">>
    /\ last.library = <<>>
    /\ Len(registry) = 2
    /\ registry[1].key = registry[2].key
    /\ last.outcome.kind = "instance"
    /\ WithoutLabel(last.outcome.entries[1])

====
